---- MODULE Spec2Model ----
(***************************************************************************)
(* Market-data ingestion pipeline of LeanBacktester (src/data_pipeline):   *)
(* provider adapters (Alpaca equities, Binance crypto), the OHLCV          *)
(* validator, the Lean CSV encoder, the zip partition writer and the       *)
(* per-symbol / per-day download loops.                                    *)
(*                                                                         *)
(* Units.  Prices and volumes are integers counting 1/UnitsPerDollar, so   *)
(* that int(price * 10000) is a truncating division.  Instants are         *)
(* integers counting slots of a day (SlotsPerDay per day); day 0 is a      *)
(* Thursday, so the modelled range holds weekdays and a weekend.           *)
(***************************************************************************)
EXTENDS Integers, Sequences, FiniteSets, TLC

VARIABLES
    pc,          \* position of the orchestrator (or of the validator harness)
    resolution,  \* --resolution of the run
    asset,       \* "equity" (AlpacaDataDownloader) or "crypto" (BinanceDataDownloader)
    start_date,  \* start of the requested range, in slots
    end_date,    \* end of the requested range, in slots
    si,          \* index into the symbols list (the for loop of download_multiple_symbols)
    todo,        \* units of work the current symbol still has to process
    data,        \* what get_bars / get_klines returned for the current unit
    cleaned,     \* what DataValidator.clean_ohlcv_data returned for the current unit
    wpath,       \* output_path of the zip file being written
    disk,        \* the partition tree: path -> file
    outcome,     \* what became of each unit of work (observation)
    attempted,   \* symbols download_symbol_data was called for, in call order
    log,         \* logger.error and logger.warning lines, counted per kind and symbol,
                 \* and the closing logger.info lines of a run
    calls,       \* number of outbound provider calls issued
    gap,         \* milliseconds slept since the last provider call completed
    paced,       \* FALSE once a provider call started too soon after the previous one
    clock,       \* the wall clock, in ticks of the zip member time (2 seconds)
    coverage,    \* what AlgorithmRunner.analyze_data_coverage returned
    result,      \* what AlgorithmRunner.display_data_coverage returned and printed
    source,      \* --source of the run: the provider, or providers, it downloads from
    callers      \* threads that call get_bars / get_klines of one adapter: where each
                 \* is, and the time since its last outbound call

vars == <<pc, resolution, asset, start_date, end_date, si, todo, data, cleaned,
          wpath, disk, outcome, attempted, log, calls, gap, paced,
          clock, coverage, result, source, callers>>

----------------------------------------------------------------------------
(* Bounds of the model *)

MaxSpanDays == 1
SlotsPerDay == 2
MaxBars == 2
MaxCleanInput == 3
NumSymbols == 2
MaxClock == 1
MaxDailyRows == 3
NumCallers == 2
MaxConcurrentCalls == 4

(* Program constants *)

ALPACA_RATE_LIMIT == 200
BINANCE_RATE_LIMIT == 1200
LEAN_PRICE_MULTIPLIER == 10000

UnitsPerDollar == 10 * LEAN_PRICE_MULTIPLIER
MsPerSlot == (24 * 60 * 60 * 1000) \div SlotsPerDay

NoDate == 0 - 1
NoPath == [asset |-> "none", resolution |-> "none", symbol |-> "none", date |-> NoDate]

SymbolNames == <<"AAPL", "GOOGL", "MSFT">>
symbols == SubSeq(SymbolNames, 1, NumSymbols)

Days == 0 .. (MaxSpanDays + 1)
Instants == 0 .. (Cardinality(Days) * SlotsPerDay - 1)
DayOf(t) == t \div SlotsPerDay
TimeOfDay(t) == t % SlotsPerDay
Midnight(d) == d * SlotsPerDay

Weekday(d) == (d + 3) % 7

Min(a, b) == IF a <= b THEN a ELSE b

TruncDiv(a, b) == IF a >= 0 THEN a \div b ELSE 0 - ((0 - a) \div b)

SeqsUpTo(S, n) == UNION {[1 .. k -> S] : k \in 0 .. n}

----------------------------------------------------------------------------
(* utils.py: DataValidator *)

required_fields == {"open", "high", "low", "close", "volume", "timestamp"}

validate_ohlcv_data_no_volume_check(bar) ==
    IF \E f \in required_fields : f \notin DOMAIN bar THEN FALSE
    ELSE IF ~(bar["low"] <= bar["open"] /\ bar["open"] <= bar["high"]
              /\ bar["low"] <= bar["close"] /\ bar["close"] <= bar["high"]) THEN FALSE
    ELSE TRUE

validate_ohlcv_data(bar) ==
    IF \E f \in required_fields : f \notin DOMAIN bar THEN FALSE
    ELSE IF ~(bar["low"] <= bar["open"] /\ bar["open"] <= bar["high"]
              /\ bar["low"] <= bar["close"] /\ bar["close"] <= bar["high"]) THEN FALSE
    ELSE IF bar["volume"] < 0 THEN FALSE
    ELSE TRUE

RECURSIVE clean_loop(_, _)
clean_loop(rest, cleaned_data) ==
    IF rest = <<>> THEN cleaned_data
    ELSE clean_loop(Tail(rest),
                    IF validate_ohlcv_data(Head(rest))
                    THEN Append(cleaned_data, Head(rest))
                    ELSE cleaned_data)

clean_ohlcv_data_unfiltered(bars) == bars
clean_ohlcv_data(bars) == clean_loop(bars, <<>>)

----------------------------------------------------------------------------
(* The upstream providers: what a call may return *)

ShapeA == [o |-> 12, h |-> 19, l |-> 5, c |-> 10, v |-> 3 * UnitsPerDollar]
ShapeB == [o |-> 25, h |-> 25, l |-> 25, c |-> 25, v |-> 0]
ShapeBadOHLC == [o |-> 12, h |-> 5, l |-> 19, c |-> 12, v |-> 3 * UnitsPerDollar]
ShapeNegVol == [o |-> 12, h |-> 19, l |-> 5, c |-> 10, v |-> 0 - UnitsPerDollar]

ShapeC == [o |-> 15, h |-> 15, l |-> 14, c |-> 14, v |-> UnitsPerDollar \div 2]

ShapesAt(slot) == IF slot % 2 = 0 THEN {ShapeA, ShapeBadOHLC} ELSE {ShapeB, ShapeNegVol}

RawBar(t, shape) == [t |-> t, o |-> shape.o, h |-> shape.h, l |-> shape.l,
                     c |-> shape.c, v |-> shape.v]

ProviderBars(dlo, dhi) ==
    UNION {{RawBar(t, shape) : shape \in ShapesAt(TimeOfDay(t))} :
           t \in {u \in Instants : DayOf(u) >= dlo /\ DayOf(u) <= dhi}}

ProviderResponses(dlo, dhi) == SeqsUpTo(ProviderBars(dlo, dhi), MaxBars)

----------------------------------------------------------------------------
(* config.py *)

LEAN_TIMEZONE_EQUITY == "America/New_York"
LEAN_TIMEZONE_CRYPTO == "UTC"

RateLimit(a) == IF a = "equity" THEN ALPACA_RATE_LIMIT ELSE BINANCE_RATE_LIMIT

(* self.rate_limit_delay = 60 / RATE_LIMIT, here in milliseconds *)
rate_limit_delay(a) == (60 * 1000) \div RateLimit(a)

----------------------------------------------------------------------------
(* alpaca_downloader.py / binance_downloader.py: the adapters *)

(* int(bar.v): the volume truncated to a whole number of shares *)
IntVolume(v) == TruncDiv(v, UnitsPerDollar) * UnitsPerDollar

alpaca_bar(b) ==
    [timestamp |-> [wall |-> b.t, tz |-> LEAN_TIMEZONE_EQUITY],
     open |-> b.o, high |-> b.h, low |-> b.l, close |-> b.c,
     volume |-> IntVolume(b.v)]

binance_bar(k) ==
    [timestamp |-> [wall |-> k.t, tz |-> LEAN_TIMEZONE_CRYPTO],
     open |-> k.o, high |-> k.h, low |-> k.l, close |-> k.c,
     volume |-> k.v]

convert_bars(a, raw) ==
    [i \in 1 .. Len(raw) |-> IF a = "equity" THEN alpaca_bar(raw[i]) ELSE binance_bar(raw[i])]

(* _convert_timeframe / _convert_interval: timeframe_map.get(timeframe, '1Min') *)
timeframe_map(a) ==
    IF a = "equity" THEN [minute |-> "1Min", hour |-> "1Hour", daily |-> "1Day"]
    ELSE [minute |-> "1m", hour |-> "1h", daily |-> "1d"]

_convert_timeframe(a, timeframe) ==
    IF timeframe \in DOMAIN timeframe_map(a) THEN timeframe_map(a)[timeframe]
    ELSE timeframe_map(a)["minute"]

(* what the except clause of get_bars / get_klines does with a provider error *)
on_provider_error_raise == "raise"
on_provider_error == "return_empty"

(* time.sleep after a call that raised: the except clause does not sleep *)
sleep_after_failed_call(a) == 0
sleep_after_call(a) == rate_limit_delay(a)

----------------------------------------------------------------------------
(* utils.py: the Lean encoders and the zip writer *)

milliseconds_since_midnight(ts) == TimeOfDay(ts.wall) * MsPerSlot

(* strftime("%Y%m%d %H:%M") *)
DateTimeToken(ts) == [fmt |-> "datetime", date |-> DayOf(ts.wall),
                      ms |-> TimeOfDay(ts.wall) * MsPerSlot]
MsToken(ts) == [fmt |-> "ms", date |-> NoDate, ms |-> milliseconds_since_midnight(ts)]

(* int(x * 100): cents in place of hundredths of a cent *)
ScalePrice_cents(x) == TruncDiv(x * (LEAN_PRICE_MULTIPLIER \div 100), UnitsPerDollar)

(* int(x * 10000) of a price x given in 1/UnitsPerDollar *)
ScalePrice(x) == TruncDiv(x * LEAN_PRICE_MULTIPLIER, UnitsPerDollar)

(* src is not a CSV column: it remembers which instant the row was made from *)
tradebar_row(bar, res) ==
    [src |-> bar.timestamp.wall,
     time |-> IF res = "daily" THEN DateTimeToken(bar.timestamp) ELSE MsToken(bar.timestamp),
     open |-> ScalePrice(bar.open), high |-> ScalePrice(bar.high),
     low |-> ScalePrice(bar.low), close |-> ScalePrice(bar.close),
     volume |-> TruncDiv(bar.volume, UnitsPerDollar)]

create_lean_tradebar_csv(bars, res) == [i \in 1 .. Len(bars) |-> tradebar_row(bars[i], res)]

crypto_row(bar) ==
    [src |-> bar.timestamp.wall,
     time |-> MsToken(bar.timestamp),
     open |-> bar.open, high |-> bar.high, low |-> bar.low, close |-> bar.close,
     volume |-> bar.volume]

create_lean_crypto_csv(bars, res) == [i \in 1 .. Len(bars) |-> crypto_row(bars[i])]

create_csv(a, bars, res) ==
    IF a = "equity" THEN create_lean_tradebar_csv(bars, res)
    ELSE create_lean_crypto_csv(bars, res)

(* strftime(LEAN_TIME_FORMAT): the date key of a bar *)
date_key(bar) == DayOf(bar.timestamp.wall)

(* daily_data: the bars of each date key, in the order they arrived *)
daily_data(bars) ==
    [k \in {date_key(bars[i]) : i \in 1 .. Len(bars)} |->
        SelectSeq(bars, LAMBDA b : date_key(b) = k)]

(* for date_key in sorted(daily_data.keys()): all_csv_content.extend(...) *)
RECURSIVE extend_sorted(_, _, _, _)
extend_sorted(a, groups, keys, res) ==
    IF keys = {} THEN <<>>
    ELSE LET k == CHOOSE x \in keys : \A y \in keys : x <= y
         IN create_csv(a, groups[k], res) \o extend_sorted(a, groups, keys \ {k}, res)

all_csv_content(a, bars, res) ==
    LET groups == daily_data(bars) IN extend_sorted(a, groups, DOMAIN groups, res)

(* if cleaned_data: ... if csv_content: (a list is true when it is not empty) *)
has_content_always(content) == TRUE
has_content(content) == content # <<>>

(* the rows a unit of work writes *)
unit_csv_content(a, bars, res) ==
    IF res \in {"daily", "hour"} THEN all_csv_content(a, bars, res)
    ELSE create_csv(a, bars, res)

(* os.path.join(DATA_PATH, resolution, ...) *)
output_path(a, res, symbol, date) ==
    IF res \in {"daily", "hour"}
    THEN [asset |-> a, resolution |-> res, symbol |-> symbol, date |-> NoDate]
    ELSE [asset |-> a, resolution |-> res, symbol |-> symbol, date |-> DayOf(date)]

(* csv_filename: f"{symbol.lower()}_{resolution}_trade.csv", with the date in front
   in the per-day branch; the name of the table inside the zip *)
csv_filename(res, symbol, date) ==
    IF res \in {"daily", "hour"}
    THEN [date |-> NoDate, symbol |-> symbol, resolution |-> res]
    ELSE [date |-> DayOf(date), symbol |-> symbol, resolution |-> res]

(* zipfile.ZipFile(output_path, 'w'): the file exists, nothing is in it yet *)
OpenedZip == [kind |-> "truncated", rows |-> <<>>]
(* writestr + close: writestr stamps the member with time.localtime() *)
WrittenZip(rows, now) == [kind |-> "table", rows |-> rows, date_time |-> now]
(* close without writestr: an archive with no member *)
EmptyZip == [kind |-> "empty_archive", rows |-> <<>>]

PutFile(d, path, file) ==
    [p \in (DOMAIN d) \cup {path} |-> IF p = path THEN file ELSE d[p]]

----------------------------------------------------------------------------
(* utils.py: get_trading_days, and the while loop of the Binance downloader *)

RECURSIVE days_from(_, _, _)
days_from(current_date, end, weekdays_only) ==
    IF ~(current_date <= end) THEN <<>>
    ELSE (IF weekdays_only /\ ~(Weekday(DayOf(current_date)) < 5) THEN <<>>
          ELSE <<current_date>>)
         \o days_from(current_date + SlotsPerDay, end, weekdays_only)

get_trading_days(start, end) == days_from(start, end, TRUE)

unit_dates(a, res, start, end) ==
    IF res \in {"daily", "hour"} THEN <<NoDate>>
    ELSE IF a = "equity" THEN get_trading_days(start, end)
    ELSE days_from(start, end, FALSE)

----------------------------------------------------------------------------
(* The ingestion run *)

SUPPORTED_RESOLUTIONS == {"tick", "second", "minute", "hour", "daily"}
Resolutions == SUPPORTED_RESOLUTIONS
Assets == {"equity", "crypto"}

EmptyMap == [x \in {} |-> x]
NoResult == [available |-> <<>>, missing |-> <<>>, suggested_start |-> NoDate,
             suggested_end |-> NoDate, printed |-> "nothing"]
NoLog == [get_bars |-> [s \in {symbols[i] : i \in 1 .. Len(symbols)} |-> 0],
          download |-> [s \in {symbols[i] : i \in 1 .. Len(symbols)} |-> 0],
          warning |-> [s \in {symbols[i] : i \in 1 .. Len(symbols)} |-> 0],
          main |-> 0, info |-> <<>>]

LogError(l, kind, s) == [l EXCEPT ![kind][s] = @ + 1]

Unit(s, date) == [symbol |-> s, date |-> date]
CurrentUnit == Unit(symbols[si], Head(todo))

SetOutcome(o, u, status) == [x \in (DOMAIN o) \cup {u} |-> IF x = u THEN status ELSE o[x]]

(* the longest pause the clock remembers *)
GapCap(a) == 2 * rate_limit_delay(a)

(* ranges a caller may ask for: any two instants at most MaxSpanDays calendar days apart *)
Ranges == {r \in Instants \X Instants : DayOf(r[2]) - DayOf(r[1]) <= MaxSpanDays}

Init ==
    /\ pc = "idle"
    /\ resolution = "none" /\ asset = "none"
    /\ start_date = 0 /\ end_date = 0
    /\ si = 0 /\ todo = <<>>
    /\ data = <<>> /\ cleaned = <<>>
    /\ wpath = NoPath
    /\ disk = EmptyMap
    /\ outcome = EmptyMap
    /\ attempted = <<>>
    /\ log = NoLog
    /\ calls = 0 /\ gap = 0 /\ paced = TRUE
    /\ clock = 0 /\ coverage = EmptyMap /\ result = NoResult
    /\ source = "none" /\ callers = EmptyMap

(* the value of --source that names one provider, and the adapter either names *)
Sources == {"alpaca", "binance", "both"}
ProviderOf(a) == IF a = "equity" THEN "alpaca" ELSE "binance"

(* a new adapter object and its download_multiple_symbols(symbols, resolution,
   start_date, end_date); what is observed of an adapter starts afresh *)
StartRun(a) ==
    /\ asset' = a
    /\ si' = 1
    /\ outcome' = EmptyMap /\ attempted' = <<>>
    /\ calls' = 0 /\ gap' = 0
    /\ pc' = "symbol_loop"
    /\ UNCHANGED <<todo, data, cleaned, wpath, disk, log, paced, clock, coverage, result, callers>>

(* main.py: one `if args.source in [..., 'both']: try: ... except Exception` block.
   The constructor of the adapter is inside the try: when it raises (no credentials,
   exchange not reachable) the error is logged and, if this provider is the only one
   asked for, sys.exit(1) ends the run; with 'both' the run goes on after the block. *)
ProviderBlock(a, src) ==
    \/ StartRun(a)
    \/ /\ asset' = a
       /\ log' = [log EXCEPT !.main = @ + 1]
       /\ pc' = IF src = ProviderOf(a) THEN "exited"
                ELSE IF a = "equity" THEN "binance_block" ELSE "pipeline_end"
       /\ UNCHANGED <<si, todo, data, cleaned, wpath, disk, outcome, attempted,
                      calls, gap, paced, clock, coverage, result, callers>>

(* main.py: the command line entry point, from the arguments to the first provider *)
PipelineMain(sources, ranges) ==
    /\ pc = "idle"
    /\ \E src \in sources, res \in Resolutions, r \in ranges :
          /\ source' = src /\ resolution' = res
          /\ start_date' = r[1] /\ end_date' = r[2]
          /\ IF r[1] >= r[2]
             THEN /\ pc' = "rejected"
                  /\ asset' = IF src = "binance" THEN "crypto" ELSE "equity"
                  /\ UNCHANGED <<si, todo, data, cleaned, wpath, disk, outcome,
                                 attempted, log, calls, gap, paced, clock, coverage, result, callers>>
             ELSE ProviderBlock(IF src = "binance" THEN "crypto" ELSE "equity", src)

(* main.py with --source alpaca or --source binance *)
Main == PipelineMain({"alpaca", "binance"}, Ranges)

(* a caller of the adapter itself, as the main() of each downloader module is *)
DownloadMultipleSymbols ==
    /\ pc = "idle"
    /\ \E a \in Assets, res \in Resolutions, r \in Ranges :
          /\ source' = ProviderOf(a) /\ resolution' = res
          /\ start_date' = r[1] /\ end_date' = r[2]
          /\ StartRun(a)

(* logger.info("Download completed"): what download_multiple_symbols emits when its
   loop is over *)
download_completed == [message |-> "Download completed"]

(* index of the symbol the loop goes on with after one symbol raised *)
after_symbol_error_abort(i) == Len(symbols) + 1
after_symbol_error(i) == i + 1

(* for symbol in symbols: try: self.download_symbol_data(symbol, ...) *)
NextSymbol ==
    /\ pc = "symbol_loop"
    /\ IF si > Len(symbols)
       THEN /\ log' = [log EXCEPT !.info = Append(@, download_completed)]
            /\ pc' = "done"
            /\ UNCHANGED <<todo, outcome, attempted>>
       ELSE LET dates == unit_dates(asset, resolution, start_date, end_date) IN
            /\ attempted' = Append(attempted, symbols[si])
            /\ todo' = dates
            /\ outcome' = [u \in (DOMAIN outcome)
                                 \cup {Unit(symbols[si], dates[i]) : i \in 1 .. Len(dates)} |->
                              IF u \in DOMAIN outcome THEN outcome[u] ELSE "pending"]
            /\ pc' = "unit"
            /\ UNCHANGED log
    /\ UNCHANGED <<resolution, asset, start_date, end_date, si, data, cleaned, wpath,
                   disk, calls, gap, paced, clock, coverage, result, source, callers>>

(* download_symbol_data returns: the loop over its units is over *)
SymbolDone ==
    /\ pc = "unit" /\ todo = <<>>
    /\ si' = si + 1
    /\ pc' = "symbol_loop"
    /\ UNCHANGED <<resolution, asset, start_date, end_date, todo, data, cleaned, wpath,
                   disk, outcome, attempted, log, calls, gap, paced, clock, coverage, result, source, callers>>

(* the days a unit asks the provider for: start=...strftime('%Y-%m-%d'), end likewise *)
RequestFrom(date) == IF date = NoDate THEN DayOf(start_date) ELSE DayOf(date)
RequestTo(date) == IF date = NoDate THEN DayOf(end_date) ELSE DayOf(date)

(* the timeout of one outbound request.  Neither adapter passes one.  tradeapi.REST
   sends its requests with none, so a call to a provider that accepts the connection
   and never answers does not return; binance.Client applies its own default to every
   request, and the expiry is an exception like any other provider error. *)
fetch_timeout(a) == IF a = "equity" THEN "none" ELSE "client_default"

(* get_bars / get_klines: one outbound call, asked at the token
   _convert_timeframe(asset, resolution).  Neither adapter calls logger.warning, so
   log.warning is left as it is. *)
GetBars ==
    /\ pc = "unit" /\ todo # <<>>
    /\ calls' = calls + 1
    /\ paced' = (paced /\ (calls = 0 \/ gap >= rate_limit_delay(asset)))
    /\ \/ (* the provider answers *)
          \E raw \in ProviderResponses(RequestFrom(Head(todo)), RequestTo(Head(todo))) :
             /\ data' = convert_bars(asset, raw)
             /\ gap' = Min(sleep_after_call(asset), GapCap(asset))
             /\ outcome' = SetOutcome(outcome, CurrentUnit,
                                      IF raw = <<>> THEN "fetched_empty" ELSE "fetched")
             /\ pc' = "process"
             /\ UNCHANGED <<log, si, todo>>
       \/ (* the call raises: except Exception as e *)
          /\ data' = <<>>
          /\ gap' = Min(sleep_after_failed_call(asset), GapCap(asset))
          /\ outcome' = SetOutcome(outcome, CurrentUnit, "fetch_failed")
          /\ IF on_provider_error = "return_empty"
             THEN /\ log' = LogError(log, "get_bars", symbols[si])
                  /\ pc' = "process"
                  /\ UNCHANGED <<si, todo>>
             ELSE /\ log' = LogError(log, "download", symbols[si])
                  /\ si' = after_symbol_error(si)
                  /\ todo' = <<>>
                  /\ pc' = "symbol_loop"
       \/ (* the provider never answers and nothing ends the wait *)
          /\ fetch_timeout(asset) = "none"
          /\ outcome' = SetOutcome(outcome, CurrentUnit, "fetching")
          /\ pc' = "blocked"
          /\ UNCHANGED <<data, gap, log, si, todo>>
    /\ UNCHANGED <<resolution, asset, start_date, end_date, cleaned, wpath, disk, attempted,
                   clock, coverage, result, source, callers>>

(* if data: cleaned_data = clean_ohlcv_data(data); if cleaned_data: ... ZipFile(output_path, 'w') *)
Process ==
    /\ pc = "process"
    /\ IF data = <<>>
       THEN /\ outcome' = SetOutcome(outcome, CurrentUnit,
                                     IF outcome[CurrentUnit] = "fetch_failed"
                                     THEN "skipped_error" ELSE "skipped_nodata")
            /\ pc' = "after_unit"
            /\ UNCHANGED <<cleaned, wpath, disk>>
       ELSE LET cleaned_data == clean_ohlcv_data(data)
                path == output_path(asset, resolution, symbols[si], Head(todo))
            IN /\ cleaned' = cleaned_data
               /\ IF ~has_content(cleaned_data)
                     \/ ~has_content(unit_csv_content(asset, cleaned_data, resolution))
                  THEN /\ outcome' = SetOutcome(outcome, CurrentUnit, "skipped_invalid")
                       /\ pc' = "after_unit"
                       /\ UNCHANGED <<wpath, disk>>
                  ELSE /\ outcome' = SetOutcome(outcome, CurrentUnit, "encoding")
                       /\ wpath' = path
                       /\ disk' = PutFile(disk, path, OpenedZip)
                       /\ pc' = "writing"
    /\ UNCHANGED <<resolution, asset, start_date, end_date, si, todo, data, attempted,
                   log, calls, gap, paced, clock, coverage, result, source, callers>>

(* write_lean_zip_file: zip_file.writestr(csv_filename, csv_string), then the file is closed *)
WriteFinish ==
    /\ pc = "writing"
    /\ disk' = PutFile(disk, wpath, WrittenZip(unit_csv_content(asset, cleaned, resolution), clock))
    /\ outcome' = SetOutcome(outcome, CurrentUnit, "persisted")
    /\ pc' = "after_unit"
    /\ UNCHANGED <<resolution, asset, start_date, end_date, si, todo, data, cleaned, wpath,
                   attempted, log, calls, gap, paced, clock, coverage, result, source, callers>>

(* the write raises (OSError): the file stays as the failure left it, the exception
   leaves download_symbol_data and is caught by download_multiple_symbols *)
WriteFail ==
    /\ pc = "writing"
    /\ \E left \in {OpenedZip, EmptyZip} : disk' = PutFile(disk, wpath, left)
    /\ outcome' = SetOutcome(outcome, CurrentUnit, "write_failed")
    /\ log' = LogError(log, "download", symbols[si])
    /\ si' = after_symbol_error(si)
    /\ todo' = <<>>
    /\ data' = <<>> /\ cleaned' = <<>> /\ wpath' = NoPath
    /\ pc' = "symbol_loop"
    /\ UNCHANGED <<resolution, asset, start_date, end_date, attempted, calls, gap, paced,
                   clock, coverage, result, source, callers>>

(* the end of one unit: in the per-day loops, time.sleep(self.rate_limit_delay) *)
AfterUnit ==
    /\ pc = "after_unit"
    /\ todo' = Tail(todo)
    /\ gap' = IF resolution \in {"daily", "hour"} THEN gap
              ELSE Min(gap + rate_limit_delay(asset), GapCap(asset))
    /\ data' = <<>> /\ cleaned' = <<>> /\ wpath' = NoPath
    /\ pc' = "unit"
    /\ UNCHANGED <<resolution, asset, start_date, end_date, si, disk, outcome, attempted,
                   log, calls, paced, clock, coverage, result, source, callers>>

Next ==
    \/ Main
    \/ DownloadMultipleSymbols
    \/ NextSymbol
    \/ SymbolDone
    \/ GetBars
    \/ Process
    \/ WriteFinish
    \/ WriteFail
    \/ AfterUnit

Spec == Init /\ [][Next]_vars

----------------------------------------------------------------------------
(* main.py with any --source, the second provider block and the end of main included *)

(* requests for part of one weekend day: the equity block has no trading day to fetch
   unless the resolution is hour or daily *)
WeekendRanges == {r \in Ranges : Weekday(DayOf(r[1])) >= 5 /\ DayOf(r[2]) = DayOf(r[1])}

MainAnySource == PipelineMain(Sources, WeekendRanges)

(* download_multiple_symbols has returned to main: logger.info("... download
   completed"), the end of the try block *)
BlockDone ==
    /\ pc = "done"
    /\ pc' = IF source = "both" /\ asset = "equity" THEN "binance_block" ELSE "pipeline_end"
    /\ UNCHANGED <<resolution, asset, start_date, end_date, si, todo, data, cleaned, wpath,
                   disk, outcome, attempted, log, calls, gap, paced, clock, coverage,
                   result, source, callers>>

(* if args.source in ['binance', 'both'], reached after the Alpaca block *)
BinanceBlock ==
    /\ pc = "binance_block"
    /\ ProviderBlock("crypto", source)
    /\ UNCHANGED <<resolution, start_date, end_date, source>>

(* logger.info("Data pipeline completed successfully!") *)
pipeline_completed == [message |-> "Data pipeline completed successfully!"]

PipelineCompleted ==
    /\ pc = "pipeline_end"
    /\ log' = [log EXCEPT !.info = Append(@, pipeline_completed)]
    /\ pc' = "completed"
    /\ UNCHANGED <<resolution, asset, start_date, end_date, si, todo, data, cleaned, wpath,
                   disk, outcome, attempted, calls, gap, paced, clock, coverage,
                   result, source, callers>>

MainNext ==
    \/ MainAnySource
    \/ NextSymbol
    \/ SymbolDone
    \/ GetBars
    \/ Process
    \/ WriteFinish
    \/ WriteFail
    \/ AfterUnit
    \/ BlockDone
    \/ BinanceBlock
    \/ PipelineCompleted

SpecMain == Init /\ [][MainNext]_vars

----------------------------------------------------------------------------
(* DataValidator.clean_ohlcv_data on its own: any list of dicts, complete or not *)

FullBar(ts, o, h, l, c, v) ==
    [timestamp |-> [wall |-> ts, tz |-> LEAN_TIMEZONE_CRYPTO],
     open |-> o, high |-> h, low |-> l, close |-> c, volume |-> v]

Without(bar, field) == [f \in (DOMAIN bar) \ {field} |-> bar[f]]

ValidatorBars ==
    {FullBar(0, o, h, l, c, 0) : o \in {1, 2}, h \in {1, 2}, l \in {1, 2}, c \in {1, 2}}
    \cup {FullBar(0, 1, 1, 1, 1, 0 - 1), FullBar(0, 1, 2, 1, 2, 0 - 1)}
    \cup {FullBar(1, 1, 2, 1, 2, 0), FullBar(1, 2, 1, 1, 1, 0)}
    \cup {Without(FullBar(0, 1, 1, 1, 1, 0), f) : f \in required_fields}

ValidatorInit ==
    /\ pc = "validate"
    /\ \E n \in 0 .. MaxCleanInput : data \in [1 .. n -> ValidatorBars]
    /\ resolution = "none" /\ asset = "none"
    /\ start_date = 0 /\ end_date = 0
    /\ si = 0 /\ todo = <<>>
    /\ cleaned = <<>>
    /\ wpath = NoPath
    /\ disk = EmptyMap
    /\ outcome = EmptyMap
    /\ attempted = <<>>
    /\ log = NoLog
    /\ calls = 0 /\ gap = 0 /\ paced = TRUE
    /\ clock = 0 /\ coverage = EmptyMap /\ result = NoResult
    /\ source = "none" /\ callers = EmptyMap

Clean ==
    /\ pc = "validate"
    /\ cleaned' = clean_ohlcv_data(data)
    /\ pc' = "validated"
    /\ UNCHANGED <<resolution, asset, start_date, end_date, si, todo, data, wpath, disk,
                   outcome, attempted, log, calls, gap, paced, clock, coverage, result, source, callers>>

ValidatorNext == Clean

SpecValidator == ValidatorInit /\ [][ValidatorNext]_vars

----------------------------------------------------------------------------
(* One unit of work from the fetched bars on: clean, encode, write, and the same
   write once more (a later run that fetched the same bars for the same key) *)

EncoderShapes == {ShapeA, ShapeB, ShapeC, ShapeBadOHLC}

EncoderRawBars(dlo, dhi) ==
    {RawBar(t, shape) : t \in {u \in Instants : DayOf(u) >= dlo /\ DayOf(u) <= dhi},
                        shape \in EncoderShapes}

EncoderInit ==
    /\ pc = "process"
    /\ asset \in Assets /\ resolution \in Resolutions
    /\ start_date = Midnight(0) /\ end_date = Midnight(1)
    /\ si = 1
    /\ todo = unit_dates(asset, resolution, Midnight(0), Midnight(0))
    /\ \E n \in 0 .. MaxBars :
       \E raw \in [1 .. n -> EncoderRawBars(RequestFrom(Head(todo)), RequestTo(Head(todo)))] :
          /\ data = convert_bars(asset, raw)
          /\ outcome = SetOutcome(EmptyMap, Unit(symbols[1], Head(todo)),
                                  IF raw = <<>> THEN "fetched_empty" ELSE "fetched")
    /\ cleaned = <<>>
    /\ wpath = NoPath
    /\ disk = EmptyMap
    /\ attempted = <<symbols[1]>>
    /\ log = NoLog
    /\ calls = 1 /\ gap = rate_limit_delay(asset) /\ paced = TRUE
    /\ clock = 0 /\ coverage = EmptyMap /\ result = NoResult
    /\ source = ProviderOf(asset) /\ callers = EmptyMap

(* time passes between the two writes *)
Tick ==
    /\ pc = "after_unit" /\ wpath # NoPath
    /\ clock < MaxClock
    /\ clock' = clock + 1
    /\ UNCHANGED <<pc, resolution, asset, start_date, end_date, si, todo, data, cleaned,
                   wpath, disk, outcome, attempted, log, calls, gap, paced, coverage, result, source, callers>>

(* write_lean_zip_file(csv_content, output_path, csv_filename) again, with the same
   arguments: ZipFile(output_path, 'w') truncates the file, writestr, close *)
Rewrite ==
    /\ pc = "after_unit" /\ wpath # NoPath
    /\ disk' = PutFile(disk, output_path(asset, resolution, symbols[si], Head(todo)),
                       WrittenZip(unit_csv_content(asset, cleaned, resolution), clock))
    /\ pc' = "rewritten"
    /\ UNCHANGED <<resolution, asset, start_date, end_date, si, todo, data, cleaned, wpath,
                   outcome, attempted, log, calls, gap, paced, clock, coverage, result, source, callers>>

EncoderNext ==
    \/ Process
    \/ WriteFinish
    \/ Tick
    \/ Rewrite

SpecEncoder == EncoderInit /\ [][EncoderNext]_vars

----------------------------------------------------------------------------
(* download_symbol_data over a tree an earlier run has written to *)

(* the partition an earlier run left at a path: one valid bar of the path's day *)
EarlierPartition(p, from) ==
    WrittenZip(unit_csv_content(p.asset,
                                clean_ohlcv_data(convert_bars(p.asset,
                                   <<RawBar(Midnight(IF p.date = NoDate THEN DayOf(from)
                                                     ELSE DayOf(p.date)), ShapeC)>>)),
                                p.resolution), 0)

EarlierTree(paths, from) == [p \in paths |-> EarlierPartition(p, from)]

RerunResolutions == {"minute", "daily"}

RerunInit ==
    /\ pc = "unit"
    /\ asset \in Assets /\ resolution \in RerunResolutions
    /\ \E r \in Ranges : r[1] < r[2] /\ start_date = r[1] /\ end_date = r[2]
    /\ si = 1
    /\ todo = unit_dates(asset, resolution, start_date, end_date)
    /\ data = <<>> /\ cleaned = <<>>
    /\ wpath = NoPath
    /\ \E paths \in SUBSET {output_path(asset, resolution, symbols[1], todo[i]) :
                              i \in 1 .. Len(todo)} :
          disk = EarlierTree(paths, start_date)
    /\ outcome = [u \in {Unit(symbols[1], todo[i]) : i \in 1 .. Len(todo)} |-> "pending"]
    /\ attempted = <<symbols[1]>>
    /\ log = NoLog
    /\ calls = 0 /\ gap = 0 /\ paced = TRUE
    /\ clock = 0 /\ coverage = EmptyMap /\ result = NoResult
    /\ source = ProviderOf(asset) /\ callers = EmptyMap

RerunNext ==
    \/ GetBars
    \/ Process
    \/ WriteFinish
    \/ WriteFail
    \/ AfterUnit
    \/ SymbolDone

SpecRerun == RerunInit /\ [][RerunNext]_vars

(* the interpreter runs the statements of download_symbol_data one after the other:
   whenever a step can be taken, one is taken *)
SpecRerunFair == SpecRerun /\ WF_vars(RerunNext)

----------------------------------------------------------------------------
(* algo_runner.py: AlgorithmRunner.analyze_data_coverage *)

(* self.data_dir / "equity" / "usa" / "daily" / f"{symbol_lower}.zip" *)
daily_zip(s) == [asset |-> "equity", resolution |-> "daily", symbol |-> s, date |-> NoDate]

(* minute_path.exists(): the symbol's minute directory, made before its first file *)
minute_path_never(d, s) == FALSE
minute_path_exists(d, s) ==
    \E p \in DOMAIN d : p.asset = "equity" /\ p.resolution = "minute" /\ p.symbol = s

(* for line in lines[1:6] *)
sampled_lines(rows) == SubSeq(rows, 2, Min(Len(rows), 6))

(* date_str = parts[0]; if len(date_str) >= 8: strptime(date_str[:8], '%Y%m%d').
   The rows of a daily equity partition start with "YYYYMMDD HH:MM". *)
RECURSIVE parse_dates(_)
parse_dates(lines) ==
    IF lines = <<>> THEN <<>>
    ELSE (IF Head(lines).time.fmt = "datetime" THEN <<Head(lines).time.date>> ELSE <<>>)
         \o parse_dates(Tail(lines))

(* dates: empty when the file is missing, is not a zip (BadZipFile is caught) or has
   no .csv member *)
daily_dates(d, s) ==
    IF daily_zip(s) \notin DOMAIN d THEN <<>>
    ELSE IF d[daily_zip(s)].kind # "table" THEN <<>>
    ELSE parse_dates(sampled_lines(d[daily_zip(s)].rows))

SeqMin(q) == CHOOSE x \in {q[i] : i \in 1 .. Len(q)} : \A i \in 1 .. Len(q) : x <= q[i]
SeqMax(q) == CHOOSE x \in {q[i] : i \in 1 .. Len(q)} : \A i \in 1 .. Len(q) : x >= q[i]

symbol_coverage(d, s) ==
    LET dates == daily_dates(d, s) IN
    IF dates # <<>>
    THEN [available |-> TRUE, start_date |-> SeqMin(dates), end_date |-> SeqMax(dates),
          total_days |-> Len(dates), file_type |-> "daily_zip"]
    ELSE IF minute_path_exists(d, s)
    THEN [available |-> TRUE, start_date |-> NoDate, end_date |-> NoDate,
          total_days |-> 0, file_type |-> "minute_folder"]
    ELSE [available |-> FALSE, start_date |-> NoDate, end_date |-> NoDate,
          total_days |-> 0, file_type |-> "none"]

analyze_data_coverage(d, syms) ==
    [s \in {syms[i] : i \in 1 .. Len(syms)} |-> symbol_coverage(d, s)]

(* algo_runner.py: AlgorithmRunner.display_data_coverage *)

available_symbols(syms, cov) == SelectSeq(syms, LAMBDA s : cov[s].available)
missing_symbols(syms, cov) == SelectSeq(syms, LAMBDA s : ~cov[s].available)

(* if info['start_date'] and info['end_date']: date_ranges.append(...) *)
date_ranges(syms, cov) ==
    LET known == SelectSeq(syms, LAMBDA s : /\ cov[s].available
                                            /\ cov[s].start_date # NoDate
                                            /\ cov[s].end_date # NoDate)
    IN [i \in 1 .. Len(known) |-> <<cov[known[i]].start_date, cov[known[i]].end_date>>]

overall_start_earliest(ranges) == SeqMin([i \in 1 .. Len(ranges) |-> ranges[i][1]])
overall_start(ranges) == SeqMax([i \in 1 .. Len(ranges) |-> ranges[i][1]])
overall_end(ranges) == SeqMin([i \in 1 .. Len(ranges) |-> ranges[i][2]])

(* the returned dict, and what was printed about the common window *)
display_data_coverage(syms, cov) ==
    LET ranges == date_ranges(syms, cov) IN
    IF ranges # <<>> /\ overall_start(ranges) <= overall_end(ranges)
    THEN [available |-> available_symbols(syms, cov),
          missing |-> missing_symbols(syms, cov),
          suggested_start |-> overall_start(ranges),
          suggested_end |-> overall_end(ranges),
          printed |-> "recommended_range"]
    ELSE [available |-> available_symbols(syms, cov),
          missing |-> missing_symbols(syms, cov),
          suggested_start |-> NoDate,
          suggested_end |-> NoDate,
          printed |-> "nothing"]

(* The partition trees the analysis may find: per symbol, a daily equity file (absent,
   half-written, or written from up to MaxDailyRows daily bars) and a minute directory
   (absent, or holding one day's file) *)

Absent == [kind |-> "absent", rows |-> <<>>]

DailyBar(d) == alpaca_bar(RawBar(Midnight(d), ShapeB))

DailyFiles ==
    {WrittenZip(all_csv_content("equity", [i \in 1 .. Len(q) |-> DailyBar(q[i])], "daily"), 0) :
        q \in UNION {[1 .. n -> Days] : n \in 1 .. MaxDailyRows}}
    \cup {OpenedZip, EmptyZip}

MinuteFile == WrittenZip(create_csv("equity", <<alpaca_bar(RawBar(0, ShapeB))>>, "minute"), 0)

TreeOf(ch) ==
    LET names == {symbols[i] : i \in 1 .. Len(symbols)}
        dom == {daily_zip(s) : s \in {x \in names : ch[x][1] # Absent}}
               \cup {output_path("equity", "minute", s, 0) : s \in {x \in names : ch[x][2]}}
    IN [p \in dom |-> IF p.resolution = "daily" THEN ch[p.symbol][1] ELSE MinuteFile]

CoverageInit ==
    /\ pc = "coverage"
    /\ \E ch \in [{symbols[i] : i \in 1 .. Len(symbols)}
                      -> (DailyFiles \cup {Absent}) \X BOOLEAN] : disk = TreeOf(ch)
    /\ resolution = "none" /\ asset = "none"
    /\ start_date = 0 /\ end_date = 0
    /\ si = 0 /\ todo = <<>>
    /\ data = <<>> /\ cleaned = <<>>
    /\ wpath = NoPath
    /\ outcome = EmptyMap
    /\ attempted = <<>>
    /\ log = NoLog
    /\ calls = 0 /\ gap = 0 /\ paced = TRUE
    /\ clock = 0 /\ coverage = EmptyMap /\ result = NoResult
    /\ source = "none" /\ callers = EmptyMap

(* coverage = self.analyze_data_coverage(symbols) *)
Analyze ==
    /\ pc = "coverage"
    /\ coverage' = analyze_data_coverage(disk, symbols)
    /\ pc' = "analyzed"
    /\ UNCHANGED <<resolution, asset, start_date, end_date, si, todo, data, cleaned, wpath,
                   disk, outcome, attempted, log, calls, gap, paced, clock, result, source, callers>>

(* coverage_info = self.display_data_coverage(symbols, coverage) *)
Display ==
    /\ pc = "analyzed"
    /\ result' = display_data_coverage(symbols, coverage)
    /\ pc' = "displayed"
    /\ UNCHANGED <<resolution, asset, start_date, end_date, si, todo, data, cleaned, wpath,
                   disk, outcome, attempted, log, calls, gap, paced, clock, coverage, source, callers>>

CoverageNext ==
    \/ Analyze
    \/ Display

SpecCoverage == CoverageInit /\ [][CoverageNext]_vars

----------------------------------------------------------------------------
(* Two or more threads calling get_bars / get_klines of the same adapter object.  The
   provider answers every call here; what a failed call does to the pacing is in
   GetBars. *)

Callers == 1 .. NumCallers
NoCall == 0 - 1

(* the step of the clock: half of the adapter's rate_limit_delay *)
Quantum(a) == rate_limit_delay(a) \div 2

ConcurrentInit ==
    /\ pc = "concurrent"
    /\ asset \in Assets /\ resolution \in Resolutions
    /\ start_date = Midnight(0) /\ end_date = Midnight(1)
    /\ si = 0 /\ todo = <<>>
    /\ data = <<>> /\ cleaned = <<>>
    /\ wpath = NoPath
    /\ disk = EmptyMap
    /\ outcome = EmptyMap
    /\ attempted = <<>>
    /\ log = NoLog
    /\ calls = 0 /\ gap = 0 /\ paced = TRUE
    /\ clock = 0 /\ coverage = EmptyMap /\ result = NoResult
    /\ source = ProviderOf(asset)
    /\ callers = [c \in Callers |-> [pc |-> "ready", remaining |-> 0, since |-> NoCall]]

(* get_bars up to its time.sleep: bars = self.api.get_bars(...) is issued as soon as the
   method is entered, whatever the other threads are doing, and the thread then starts
   its own sleep *)
CallerGetBars(c) ==
    /\ pc = "concurrent"
    /\ callers[c].pc = "ready"
    /\ calls < MaxConcurrentCalls
    /\ calls' = calls + 1
    /\ callers' = [callers EXCEPT ![c] = [pc |-> "sleeping",
                                          remaining |-> sleep_after_call(asset),
                                          since |-> 0]]
    /\ UNCHANGED <<pc, resolution, asset, start_date, end_date, si, todo, data, cleaned,
                   wpath, disk, outcome, attempted, log, gap, paced, clock, coverage,
                   result, source>>

(* time.sleep(self.rate_limit_delay) is over: return data, and the thread is free to
   call again *)
CallerReturn(c) ==
    /\ pc = "concurrent"
    /\ callers[c].pc = "sleeping" /\ callers[c].remaining = 0
    /\ callers' = [callers EXCEPT ![c].pc = "ready"]
    /\ UNCHANGED <<pc, resolution, asset, start_date, end_date, si, todo, data, cleaned,
                   wpath, disk, outcome, attempted, log, calls, gap, paced, clock,
                   coverage, result, source>>

(* time passes for every thread alike *)
Elapse ==
    /\ pc = "concurrent"
    /\ \E c \in Callers : callers[c].since # NoCall /\ callers[c].since < GapCap(asset)
    /\ callers' = [c \in Callers |->
                      [pc |-> callers[c].pc,
                       remaining |-> IF callers[c].remaining > Quantum(asset)
                                     THEN callers[c].remaining - Quantum(asset) ELSE 0,
                       since |-> IF callers[c].since = NoCall THEN NoCall
                                 ELSE Min(callers[c].since + Quantum(asset), GapCap(asset))]]
    /\ UNCHANGED <<pc, resolution, asset, start_date, end_date, si, todo, data, cleaned,
                   wpath, disk, outcome, attempted, log, calls, gap, paced, clock,
                   coverage, result, source>>

ConcurrentNext ==
    \/ \E c \in Callers : CallerGetBars(c)
    \/ \E c \in Callers : CallerReturn(c)
    \/ Elapse

SpecConcurrent == ConcurrentInit /\ [][ConcurrentNext]_vars

----------------------------------------------------------------------------
(* Properties *)

(* the Bar invariant of the data model *)
BarInvariant(bar) ==
    /\ required_fields \subseteq DOMAIN bar
    /\ bar["low"] <= bar["open"] /\ bar["open"] <= bar["high"]
    /\ bar["low"] <= bar["close"] /\ bar["close"] <= bar["high"]
    /\ bar["volume"] >= 0

RowInvariant(row) ==
    /\ row.low <= row.open /\ row.open <= row.high
    /\ row.low <= row.close /\ row.close <= row.high
    /\ row.volume >= 0

Tables == {p \in DOMAIN disk : disk[p].kind = "table"}

SymbolIndex(s) == CHOOSE i \in 1 .. Len(symbols) : symbols[i] = s

(* download_symbol_data(s) has been called and has returned or raised *)
Finished(s) == pc \in {"symbol_loop", "unit", "process", "writing", "after_unit", "done"}
               /\ SymbolIndex(s) < si

UnitsOf(s) == {u \in DOMAIN outcome : u.symbol = s}

(* C1: clean_ohlcv_data returns exactly the bars of its input that satisfy the Bar
   invariant (all six fields present, low <= open <= high, low <= close <= high,
   volume >= 0), in input order, each unchanged, duplicates of a timestamp included. *)
C1_CleanIsExactFilter ==
    pc = "validated" => cleaned = SelectSeq(data, BarInvariant)

(* C1 witness: one call that drops an invalid bar and keeps two valid bars that share
   a timestamp *)
C1_Witness ==
    /\ pc = "validated"
    /\ Len(data) = 3 /\ Len(cleaned) = 2
    /\ cleaned[1]["timestamp"] = cleaned[2]["timestamp"]
    /\ cleaned[1] # cleaned[2]

(* C2: every row of every file on disk satisfies low <= open <= high,
   low <= close <= high and volume >= 0 on its encoded values, and every bar handed to
   the encoder has passed the validator. *)
C2_DiskRowsSatisfyInvariant ==
    /\ \A p \in DOMAIN disk : \A i \in 1 .. Len(disk[p].rows) : RowInvariant(disk[p].rows[i])
    /\ \A i \in 1 .. Len(cleaned) : BarInvariant(cleaned[i])

(* C2 witness: an equity partition is on disk whose fetch held a bar the validator
   dropped, and the scaling has made two different prices of a kept bar equal *)
C2_Witness ==
    /\ pc = "after_unit" /\ asset = "equity"
    /\ wpath \in Tables
    /\ Len(cleaned) < Len(data)
    /\ \E i \in 1 .. Len(cleaned) :
          /\ cleaned[i].open < cleaned[i].high
          /\ disk[wpath].rows[i].open = disk[wpath].rows[i].high

(* C3 (as claimed): whatever file is at a canonical path is a complete partition, at
   every moment a reader may look, also while a write is under way or after it failed. *)
C3_AtomicPartitionWrites ==
    \A p \in DOMAIN disk : disk[p].kind = "table"

(* C4: a provider error on one day does not stop the symbol's run.  A unit of work is
   left unprocessed only behind a unit whose write raised, never behind a failed fetch;
   a unit whose fetch failed is skipped with one logged error and no file; every other
   processed unit that had valid bars is on disk. *)
C4_ProviderErrorSkipsOneDay ==
    \A u \in DOMAIN outcome :
       /\ (Finished(u.symbol) /\ outcome[u] \notin {"persisted", "skipped_error",
                                                     "skipped_nodata", "skipped_invalid",
                                                     "write_failed"})
             => /\ outcome[u] = "pending"
                /\ \E w \in UnitsOf(u.symbol) : w.date < u.date /\ outcome[w] = "write_failed"
       /\ outcome[u] = "skipped_error"
             => /\ output_path(asset, resolution, u.symbol, u.date) \notin DOMAIN disk
                /\ log.get_bars[u.symbol]
                     = Cardinality({w \in UnitsOf(u.symbol) :
                                       outcome[w] \in {"skipped_error", "fetch_failed"}})
       /\ outcome[u] = "persisted"
             => output_path(asset, resolution, u.symbol, u.date) \in Tables

(* C4 witness: a minute download of an equity symbol is over, the fetch of its first
   day failed and its second day is persisted *)
C4_Witness ==
    /\ pc = "done" /\ resolution = "minute" /\ asset = "equity"
    /\ \E u \in DOMAIN outcome, w \in DOMAIN outcome :
          /\ u.symbol = w.symbol /\ u.date < w.date
          /\ outcome[u] = "skipped_error" /\ outcome[w] = "persisted"

(* C5 (as claimed): a failure while writing one unit's partition is fatal for that unit
   only: once the symbol's download is over, none of its units was left unprocessed. *)
C5_WriteFailureIsPerUnit ==
    \A u \in DOMAIN outcome : Finished(u.symbol) => outcome[u] # "pending"

(* C6: download_multiple_symbols calls download_symbol_data for every symbol of its
   list, in list order; an exception of one symbol is logged once for that symbol and
   the loop goes on with the next one. *)
C6_EverySymbolAttempted ==
    /\ Len(attempted) <= Len(symbols)
    /\ attempted = SubSeq(symbols, 1, Len(attempted))
    /\ pc = "done" => attempted = symbols
    /\ \A i \in 1 .. Len(symbols) :
          log.download[symbols[i]]
             = Cardinality({u \in UnitsOf(symbols[i]) : outcome[u] = "write_failed"})

(* C6 witness: the run is over, the first symbol raised and a later symbol was
   persisted *)
C6_Witness ==
    /\ pc = "done"
    /\ log.download[symbols[1]] = 1
    /\ \E u \in UnitsOf(symbols[Len(symbols)]) : outcome[u] = "persisted"

(* C7 (as claimed): with start >= end no outbound provider call is ever issued,
   whichever entry point the request came through. *)
C7_InvalidRangeRejectedBeforeAnyCall ==
    start_date >= end_date => calls = 0

(* C8 (as claimed): every provider call but the first starts at least
   60 / calls_per_minute seconds after the previous call completed, also when that
   call failed or returned nothing. *)
C8_MinimumInterCallDelay == paced

(* C9 (as claimed): the rows of every table on disk are in ascending order of the
   instants of the bars they were made from. *)
C9_RowsAscendingByTimestamp ==
    \A p \in Tables : \A i \in 1 .. Len(disk[p].rows), j \in 1 .. Len(disk[p].rows) :
       i < j => disk[p].rows[i].src <= disk[p].rows[j].src

(* C10 (as claimed): no table on disk holds two rows made from bars of the same
   timestamp. *)
C10_NoDuplicateTimestamps ==
    \A p \in Tables : \A i \in 1 .. Len(disk[p].rows), j \in 1 .. Len(disk[p].rows) :
       i # j => disk[p].rows[i].src # disk[p].rows[j].src

Skipped == {"skipped_error", "skipped_nodata", "skipped_invalid"}

(* C11: a unit of work with no bars to encode (failed or empty fetch, or every bar
   dropped by the validator) leaves no file at its path; a file is opened only for a
   unit that has rows, every complete partition holds at least one row, and a file
   that is not a complete partition belongs to a unit that had rows and whose write is
   under way or raised. *)
C11_NoPartitionForEmptyUnit ==
    /\ \A u \in DOMAIN outcome :
          outcome[u] \in Skipped
             => output_path(asset, resolution, u.symbol, u.date) \notin DOMAIN disk
    /\ \A p \in Tables : disk[p].rows # <<>>
    /\ pc = "writing" => unit_csv_content(asset, cleaned, resolution) # <<>>
    /\ \A p \in (DOMAIN disk) \ Tables :
          \E u \in DOMAIN outcome :
             /\ p = output_path(asset, resolution, u.symbol, u.date)
             /\ outcome[u] \in {"encoding", "write_failed"}

(* C11 witness: a per-day run is over in which one day's fetch was empty, another
   day's bars were all dropped by the validator and a third unit is on disk *)
C11_Witness ==
    /\ pc = "done" /\ resolution \notin {"daily", "hour"}
    /\ \E u \in DOMAIN outcome, w \in DOMAIN outcome, x \in DOMAIN outcome :
          /\ outcome[u] = "skipped_nodata"
          /\ outcome[w] = "skipped_invalid"
          /\ outcome[x] = "persisted"
          /\ output_path(asset, resolution, x.symbol, x.date) \in Tables

NativeTokens(a) ==
    IF a = "equity" THEN [minute |-> "1Min", hour |-> "1Hour", daily |-> "1Day"]
    ELSE [minute |-> "1m", hour |-> "1h", daily |-> "1d"]

(* C20 (as claimed): once a fetch has been issued, it was asked at the provider's token
   for minute, hour or daily, and at the minute token for any other resolution, in
   which case a warning was logged before the fetch. *)
C20_FallbackIsLoggedAsWarning ==
    calls > 0 =>
       IF resolution \in {"minute", "hour", "daily"}
       THEN _convert_timeframe(asset, resolution) = NativeTokens(asset)[resolution]
       ELSE /\ _convert_timeframe(asset, resolution) = NativeTokens(asset)["minute"]
            /\ \E i \in 1 .. Len(symbols) : log.warning[symbols[i]] > 0

Abs(x) == IF x >= 0 THEN x ELSE 0 - x

PriceFields == {"open", "high", "low", "close"}

RECURSIVE concat_sorted(_, _)
concat_sorted(groups, keys) ==
    IF keys = {} THEN <<>>
    ELSE LET k == CHOOSE x \in keys : \A y \in keys : x <= y
         IN groups[k] \o concat_sorted(groups, keys \ {k})

(* the encoded bars, in the order their rows are written *)
BarsInRowOrder(bars, res) ==
    IF res \in {"daily", "hour"}
    THEN concat_sorted(daily_data(bars), DOMAIN daily_data(bars))
    ELSE bars

(* the unit's partition has just been written from the bars in cleaned *)
JustWritten == pc \in {"after_unit", "rewritten"} /\ wpath \in Tables

(* C12 (as claimed): an equity row holds, for each of open, high, low and close, the
   integer nearest to price * 10000; a crypto row holds the price itself. *)
C12_EquityPricesRoundedToNearest ==
    JustWritten =>
       LET rows == disk[wpath].rows
           bars == BarsInRowOrder(cleaned, resolution)
       IN \A i \in 1 .. Len(rows) : \A f \in PriceFields :
             IF asset = "equity"
             THEN 2 * Abs(rows[i][f] * UnitsPerDollar - bars[i][f] * LEAN_PRICE_MULTIPLIER)
                     <= UnitsPerDollar
             ELSE rows[i][f] = bars[i][f]

(* 1/10000 of a dollar, in price units *)
PricePrecision == UnitsPerDollar \div LEAN_PRICE_MULTIPLIER

(* reading a price back: stored integer / 10000 for equities, the value for crypto *)
DecodePrice(a, stored) == IF a = "equity" THEN stored * PricePrecision ELSE stored

(* C13: decoding a written partition gives one row per encoded bar, in order; for
   equities every decoded price is within 1/10000 of the bar's price, for crypto every
   decoded price and the volume equal the bar's. *)
C13_RoundTripWithinPrecision ==
    JustWritten =>
       LET rows == disk[wpath].rows
           bars == BarsInRowOrder(cleaned, resolution)
       IN /\ Len(rows) = Len(bars)
          /\ \A i \in 1 .. Len(rows) :
                /\ \A f \in PriceFields :
                      IF asset = "equity"
                      THEN Abs(DecodePrice(asset, rows[i][f]) - bars[i][f]) <= PricePrecision
                      ELSE DecodePrice(asset, rows[i][f]) = bars[i][f]
                /\ asset = "crypto" => rows[i].volume = bars[i].volume

(* C13 witness: an equity partition of two rows is written and a decoded price differs
   from the bar's price (the encoding lost something) *)
C13_Witness ==
    /\ pc = "after_unit" /\ asset = "equity" /\ wpath \in Tables
    /\ Len(disk[wpath].rows) = 2 /\ Len(cleaned) = 2
    /\ \E i \in 1 .. 2 : DecodePrice(asset, disk[wpath].rows[i].high) # cleaned[i].high

(* C14 (as claimed): writing the same key again with the same bars leaves the same
   set of paths and, at the key's path, a file identical to the one the first write
   left, whenever the second write happens. *)
C14_RewriteIsByteIdentical ==
    [][(pc = "after_unit" /\ pc' = "rewritten")
          => (DOMAIN disk' = DOMAIN disk /\ disk'[wpath] = disk[wpath])]_vars

(* C15 (as claimed): every row of a daily partition carries a date+time token and
   every row of any other partition carries milliseconds since midnight, for equities
   and for crypto. *)
C15_TimeFieldDependsOnResolutionOnly ==
    \A p \in Tables : \A i \in 1 .. Len(disk[p].rows) :
       disk[p].rows[i].time.fmt = IF p.resolution = "daily" THEN "datetime" ELSE "ms"

MsPerDay == 24 * 60 * 60 * 1000

(* offset of the zone's standard time from UTC *)
UtcOffsetMs(tz) == IF tz = "America/New_York" THEN 0 - 5 * 60 * 60 * 1000 ELSE 0

LeanTimezone(a) == IF a = "equity" THEN LEAN_TIMEZONE_EQUITY ELSE LEAN_TIMEZONE_CRYPTO

(* milliseconds between an instant and the midnight that starts its day in zone tz *)
LocalMsSinceMidnight(t, tz) == (t * MsPerSlot + MsPerDay + UtcOffsetMs(tz)) % MsPerDay

(* C16 (as claimed): the time field of every sub-daily row is the number of
   milliseconds between the bar's instant and the midnight of its day in the asset
   class's timezone, and lies in [0, 86400000). *)
C16_SubDailyTimeIsLocalMsSinceMidnight ==
    \A p \in Tables : \A i \in 1 .. Len(disk[p].rows) :
       (p.resolution # "daily" /\ disk[p].rows[i].time.fmt = "ms")
          => /\ disk[p].rows[i].time.ms
                  = LocalMsSinceMidnight(disk[p].rows[i].src, LeanTimezone(p.asset))
             /\ disk[p].rows[i].time.ms >= 0
             /\ disk[p].rows[i].time.ms < MsPerDay

Requested == {symbols[i] : i \in 1 .. Len(symbols)}

HasPartitions(s) == \E p \in DOMAIN disk : p.symbol = s

(* the intraday directory the analysis knows: equity/usa/minute/<symbol> *)
IntradayDirectoryExists(s) ==
    \E p \in DOMAIN disk : p.asset = "equity" /\ p.resolution = "minute" /\ p.symbol = s

(* the dates the daily partition of s yields, as a set *)
DailyDateSet(s) == {daily_dates(disk, s)[i] : i \in 1 .. Len(daily_dates(disk, s))}

(* C17: analyze_data_coverage returns one report per requested symbol.  If the daily
   partition yields dates the report is available with start_date <= end_date, the
   earliest and the latest of these dates, whether or not a minute directory exists;
   otherwise, if the minute directory exists, it is available with both dates unknown;
   otherwise it is unavailable with no dates.  A symbol with no persisted partition at
   all is unavailable. *)
C17_CoverageReportPerSymbol ==
    pc \in {"analyzed", "displayed"} =>
       /\ DOMAIN coverage = Requested
       /\ \A s \in Requested :
             LET r == coverage[s] IN
             /\ DailyDateSet(s) # {}
                   => /\ r.available
                      /\ r.start_date <= r.end_date
                      /\ r.start_date \in DailyDateSet(s) /\ r.end_date \in DailyDateSet(s)
                      /\ \A d \in DailyDateSet(s) : r.start_date <= d /\ d <= r.end_date
             /\ (DailyDateSet(s) = {} /\ IntradayDirectoryExists(s))
                   => r.available /\ r.start_date = NoDate /\ r.end_date = NoDate
             /\ (DailyDateSet(s) = {} /\ ~IntradayDirectoryExists(s))
                   => ~r.available /\ r.start_date = NoDate /\ r.end_date = NoDate
             /\ ~HasPartitions(s) => ~r.available

(* C17 witness: the first symbol has a daily partition yielding two different dates
   and a minute directory as well, and is reported from the daily partition; the
   second has no daily file, only a minute directory, and is reported available with
   unknown dates *)
C17_Witness ==
    /\ pc = "analyzed"
    /\ IntradayDirectoryExists(symbols[1])
    /\ coverage[symbols[1]].available
    /\ coverage[symbols[1]].start_date # NoDate
    /\ coverage[symbols[1]].start_date < coverage[symbols[1]].end_date
    /\ daily_zip(symbols[2]) \notin DOMAIN disk
    /\ coverage[symbols[2]].available
    /\ coverage[symbols[2]].start_date = NoDate

(* the symbols whose report has a known date range *)
Known == {s \in Requested : /\ coverage[s].available
                            /\ coverage[s].start_date # NoDate
                            /\ coverage[s].end_date # NoDate}

MaxStart == CHOOSE x \in {coverage[s].start_date : s \in Known} :
               \A s \in Known : x >= coverage[s].start_date
MinEnd == CHOOSE x \in {coverage[s].end_date : s \in Known} :
             \A s \in Known : x <= coverage[s].end_date

(* C18: display_data_coverage suggests (S, E), S the latest start_date and E the
   earliest end_date over the reports with a known range, exactly when there is such a
   report and S <= E; otherwise it suggests nothing. *)
C18_SuggestedWindowIsIntersection ==
    pc = "displayed" =>
       IF Known # {} /\ MaxStart <= MinEnd
       THEN result.suggested_start = MaxStart /\ result.suggested_end = MinEnd
       ELSE result.suggested_start = NoDate /\ result.suggested_end = NoDate

(* C18 witness: the example of the claim, A = day 0 .. day 1 and B = day 1 .. day 2,
   for which (day 1, day 1) is suggested *)
C18_Witness ==
    /\ pc = "displayed"
    /\ coverage[symbols[1]].start_date = 0 /\ coverage[symbols[1]].end_date = 1
    /\ coverage[symbols[2]].start_date = 1 /\ coverage[symbols[2]].end_date = 2
    /\ result.suggested_start = 1 /\ result.suggested_end = 1

(* what display_data_coverage tells its caller about the common window *)
WindowOutcome(r) == [suggested_start |-> r.suggested_start,
                     suggested_end |-> r.suggested_end,
                     printed |-> r.printed]

(* the outcome when no requested symbol has any data *)
NoDataOutcome ==
    WindowOutcome(display_data_coverage(symbols,
                                        [s \in Requested |-> symbol_coverage(EmptyMap, s)]))

(* C19 (as claimed): when the known ranges do not overlap, what the caller is told
   about the window differs from what it is told when there is no data at all. *)
C19_NoOverlapIsToldExplicitly ==
    (pc = "displayed" /\ Known # {} /\ MaxStart > MinEnd)
       => WindowOutcome(result) # NoDataOutcome

(* order of two encoded time fields of one partition *)
TimeBefore(a, b) ==
    IF a.fmt = "datetime" THEN a.date < b.date \/ (a.date = b.date /\ a.ms < b.ms)
    ELSE a.ms < b.ms

(* C26 (as claimed): in every partition the time field increases strictly from one row
   to the next whenever the bars arrived in strictly increasing order of their
   instants, hourly and crypto daily partitions included. *)
C26_TimeFieldStrictlyIncreasing ==
    \A p \in Tables : \A i \in 1 .. Len(disk[p].rows) - 1 :
       disk[p].rows[i].src < disk[p].rows[i + 1].src
          => TimeBefore(disk[p].rows[i].time, disk[p].rows[i + 1].time)

(* C27 (as claimed): once the analysis has run, every symbol whose daily equity
   partition holds at least one row is reported available from the daily zip, with a
   start_date that is the date of the partition's first row. *)
C27_AnalyzerReadsWhatEncoderWrites ==
    pc \in {"analyzed", "displayed"} =>
       \A s \in Requested :
          (daily_zip(s) \in Tables /\ Len(disk[daily_zip(s)].rows) >= 1)
             => /\ coverage[s].available
                /\ coverage[s].file_type = "daily_zip"
                /\ coverage[s].start_date = disk[daily_zip(s)].rows[1].time.date

(* the resolution a provider token stands for *)
ResolutionOfToken(token) ==
    IF token \in {"1Min", "1m"} THEN "minute"
    ELSE IF token \in {"1Hour", "1h"} THEN "hour"
    ELSE IF token \in {"1Day", "1d"} THEN "daily"
    ELSE "unknown"

(* C28 (as claimed): every partition on disk was fetched at the resolution that its
   directory and its table name carry. *)
C28_StoredUnderFetchedResolution ==
    \A p \in Tables :
       /\ csv_filename(p.resolution, p.symbol, p.date).resolution = p.resolution
       /\ ResolutionOfToken(_convert_timeframe(p.asset, p.resolution)) = p.resolution

(* the calendar dates a per-day download is to cover *)
DatesToCover ==
    {d \in DayOf(start_date) .. DayOf(end_date) : asset = "crypto" \/ Weekday(d) < 5}

(* C29 (as claimed): in a per-day download with start < end, each symbol that has been
   started has exactly one unit of work for every date to cover, the date of end
   included, and its units are taken in ascending date order. *)
C29_UnitsCoverWholeRange ==
    (resolution = "minute" /\ start_date < end_date)
       => /\ \A i \in 1 .. Len(attempted) :
                {DayOf(u.date) : u \in UnitsOf(attempted[i])} = DatesToCover
          /\ \A i \in 1 .. Len(attempted) : \A u \in UnitsOf(attempted[i]), w \in UnitsOf(attempted[i]) :
                DayOf(u.date) = DayOf(w.date) => u = w
          /\ \A i \in 1 .. Len(todo) - 1 : DayOf(todo[i]) < DayOf(todo[i + 1])

(* a unit that has nothing to encode: no bars fetched, or none that passes the
   validator *)
NothingToEncode == SelectSeq(data, BarInvariant) = <<>>

(* C30: a unit of work that ends without persisting (its fetch failed, returned no
   bars, or every bar was dropped) leaves the tree as it was, a partition an earlier
   run wrote at its path included: no step of the program changes the tree unless it
   is the clean-and-write step of a unit that has a valid bar, or the write that
   follows it. *)
C30_SkippedUnitLeavesTreeUnchanged ==
    [][/\ (pc = "unit" \/ pc = "after_unit" \/ (pc = "process" /\ NothingToEncode))
             => disk' = disk
       /\ (pc = "process" /\ NothingToEncode)
             => (pc' = "after_unit" /\ outcome'[CurrentUnit] \in Skipped)]_vars

(* C30 witness: a unit was skipped and the partition an earlier run wrote at its path
   is still there, as that run wrote it *)
C30_Witness ==
    /\ pc = "after_unit"
    /\ outcome[CurrentUnit] \in Skipped
    /\ LET p == output_path(asset, resolution, symbols[si], Head(todo)) IN
       /\ p \in Tables
       /\ disk[p] = EarlierPartition(p, start_date)

(* the state of the unit-of-work state machine an outcome record stands for; a fetch
   that has returned, with bars or with none, is ready for the validator *)
Stage(o) ==
    CASE o = "pending" -> "Pending"
      [] o = "fetching" -> "Fetching"
      [] o \in {"fetched", "fetched_empty", "fetch_failed"} -> "Validating"
      [] o = "encoding" -> "Encoding"
      [] o = "persisted" -> "Persisted"
      [] OTHER -> "Skipped"

(* the moves of the state machine; a fetch that returns at once is one move from
   Pending to Validating *)
StageMoves ==
    {<<"Pending", "Fetching">>, <<"Pending", "Validating">>, <<"Fetching", "Validating">>,
     <<"Validating", "Encoding">>, <<"Encoding", "Persisted">>,
     <<"Fetching", "Skipped">>, <<"Validating", "Skipped">>, <<"Encoding", "Skipped">>}

AllUnits == {Unit(symbols[i], d) : i \in 1 .. Len(symbols), d \in Instants \cup {NoDate}}

Started(u) == u \in DOMAIN outcome /\ Stage(outcome[u]) \in {"Fetching", "Validating", "Encoding"}
Ended(u) == u \in DOMAIN outcome /\ Stage(outcome[u]) \in {"Persisted", "Skipped"}

(* the safety half of C23: units only move along the state machine, Persisted and
   Skipped are final *)
UnitsMoveAlongStateMachine ==
    [][\A u \in DOMAIN outcome :
          /\ u \in DOMAIN outcome'
          /\ \/ Stage(outcome'[u]) = Stage(outcome[u])
             \/ <<Stage(outcome[u]), Stage(outcome'[u])>> \in StageMoves]_vars

(* C23 (as claimed): a unit of work moves only along Pending -> Fetching -> Validating
   -> Encoding -> Persisted or leaves that path to Skipped, never reaches both, and
   every started unit eventually reaches Persisted or Skipped. *)
C23_UnitStateMachine ==
    /\ UnitsMoveAlongStateMachine
    /\ \A u \in AllUnits : [](Started(u) => <>Ended(u))

(* C25 (as claimed): every outbound fetch returns or times out, every unit that was
   started has issued exactly one provider call, whatever its outcome, and the units
   still to do are one per day, in ascending order of days. *)
C25_DownloadTerminates ==
    /\ pc # "blocked"
    /\ pc \in {"unit", "process", "writing", "after_unit", "symbol_loop", "done"}
          => calls = Cardinality({u \in DOMAIN outcome : outcome[u] # "pending"})
    /\ \A i \in 1 .. Len(todo) - 1 : DayOf(todo[i]) < DayOf(todo[i + 1])

(* C21 (as claimed): when a download is over, every unit of work has one outcome among
   persisted, skipped for no data and skipped for an error, and a closing line of the
   log carries the counts of the three, which add up to the number of units. *)
C21_SummaryCountsAddUp ==
    pc = "done" =>
       /\ \A u \in DOMAIN outcome :
             outcome[u] \in {"persisted", "skipped_nodata", "skipped_invalid", "skipped_error"}
       /\ \E i \in 1 .. Len(log.info) :
             /\ {"persisted", "skipped_no_data", "skipped_error"} \subseteq DOMAIN log.info[i]
             /\ log.info[i]["persisted"]
                   = Cardinality({u \in DOMAIN outcome : outcome[u] = "persisted"})
             /\ log.info[i]["skipped_no_data"]
                   = Cardinality({u \in DOMAIN outcome :
                                     outcome[u] \in {"skipped_nodata", "skipped_invalid"}})
             /\ log.info[i]["skipped_error"]
                   = Cardinality({u \in DOMAIN outcome : outcome[u] = "skipped_error"})

(* C22 (as claimed): a run whose date range is valid never ends through sys.exit, and
   with --source both the run only ends after the Binance block was entered, whatever
   became of the Alpaca block. *)
C22_RunAlwaysCompletes ==
    /\ pc # "exited"
    /\ (source = "both" /\ pc \in {"pipeline_end", "completed"}) => asset = "crypto"

(* C24 (as claimed): the latest outbound calls of any two threads that use the same
   adapter are at least rate_limit_delay apart (as far as the clock remembers). *)
C24_PacingIsGlobal ==
    \A c \in DOMAIN callers, d \in DOMAIN callers :
       (c # d /\ callers[c].since # NoCall /\ callers[d].since # NoCall
             /\ callers[c].since < GapCap(asset) /\ callers[d].since < GapCap(asset))
          => Abs(callers[c].since - callers[d].since) >= rate_limit_delay(asset)

====
